---- MODULE Spec2Model ----
(***************************************************************************)
(* A model of the swap-copy pipeline of the trading bot:                   *)
(*   - TradingEngine (src/engine.rs, src/types.rs, src/error.rs),          *)
(*   - FastCopyTrader (src/wallet.rs),                                     *)
(*   - RaydiumDex (src/raydium.rs), BotUI (src/menu.rs),                   *)
(*   - VolumeMonitor (src/volume.rs).                                      *)
(*                                                                         *)
(* Sixteen specifications share the variables:                             *)
(*   SpecLedger    copy_trade and the trade history                        *)
(*   SpecSubmit    concurrent submissions, the execution semaphore and the *)
(*                 emergency stop / shutdown                               *)
(*   Spec          the two retry loops around execute_early_swap           *)
(*   SpecSend      the content and send configuration of every             *)
(*                 transaction a submission path sends                     *)
(*   SpecDecode    the swap decoder on the transactions of the node and on *)
(*                 the transactions the engine builds                      *)
(*   SpecCopy      the callback of FastCopyTrader::start_copying           *)
(*   SpecRegistry  the trades the WalletTracker records and the statistics *)
(*                 computed from them                                      *)
(*   SpecDex       RaydiumDex::execute_swap                                *)
(*   SpecRetry     one swap taken through a retry loop, the fate of its    *)
(*                 transaction and the polling for its confirmation        *)
(*   SpecOracle    calculate_optimal_priority_fee                          *)
(*   SpecGateway   the calls of the node client and the endpoint rotation  *)
(*   SpecBuffer    the length of the logs of trades                        *)
(*   SpecVolume    the 24-hour volume of a tracked wallet                  *)
(*   SpecPool      the pool cache and validate_trade_conditions            *)
(*   SpecSignal    VolumeMonitor::check_token                              *)
(*   SpecStartup   start_bot and the setup checks                          *)
(***************************************************************************)
EXTENDS Integers, Sequences, FiniteSets

(* ------------------------------- bounds ------------------------------- *)

\* transactions handed to copy_trade
MaxTxs == 3

\* swaps handled concurrently by the engine / the copy trader
MaxSwaps == 2

\* transactions recorded in the log of sent transactions
MaxSent == 2

\* instructions handed to one bundle_* call
MaxBundle == 5

\* copy tasks the callback of start_copying spawns
MaxSpawned == 2

\* calls of RaydiumDex::execute_swap
MaxDexCalls == 1

\* trades recorded by the WalletTracker for one wallet
MaxTrades == 11

\* the clock advances by TickMs milliseconds while it is below MaxNow
TickMs == 50
MaxNow == 100

\* fee samples in the window the node returns
MaxSamples == 4

\* refresh intervals of the pool cache the clock may advance by
MaxIntervals == 3

\* trades appended to one wallet's history when its length is what is looked at
MaxAppended == 257

\* trades recorded for one wallet, and days that pass, when its 24-hour
\* volume is what is looked at
MaxVolumeTrades == 3
MaxDays == 2

(* -------------------------- program constants ------------------------- *)

\* TradingEngine::new: max_retries: 3
max_retries == 3

\* TradingEngine::new: priority_fee: 1_000_000 (the base fee the escalation multiplies)
base_priority_fee == 1000000

\* TradingEngine::new: Semaphore::new(1)
SemaphorePermits == 1

\* emergency_shutdown: std::process::exit(1)
ShutdownExitCode == 1

\* bundle_critical_transactions: chunk_size = 6
chunk_size == 6

Txs == 1..MaxTxs
Swaps == 1..MaxSwaps

\* the FastCopyTrader copies target_wallet, and the WalletTracker is asked to
\* track it; OtherAccount is an account nobody tracks
target_wallet == "L"
Wallets == {target_wallet}
OtherAccount == "X"

\* no value: no transaction decoded yet, no entry in a map, no call made yet
NoTx == [none |-> "tx"]
Absent == [none |-> "WalletState"]
NoQuery == [call |-> "none"]

\* no confirmation is being polled for
NotPolling == [pc |-> "idle", retries |-> 0, elapsed |-> 0, interval |-> 0]

\* calculate_optimal_priority_fee has not been called
NoQuote == [none |-> "quote"]

\* no call of the node has been made
NoCall == [op |-> "none"]

\* bundle_critical_transactions has not been called
NoBundle == [result |-> "none"]

\* the tokens check_token is called for
Tokens == {"mintA", "mintB"}

\* the token has no entry in VolumeMonitor.tracked_tokens
NoMetrics == [none |-> "TokenMetrics"]

\* check_token has not been called
NoCheckResult == [signal |-> "none"]

\* the pool id has no entry in RaydiumDex.pools
NoPool == [none |-> "PoolState"]

\* validate_trade_conditions has not been called
NoValidation == [result |-> "none"]

\* no setup check has been made
NoCheck == [op |-> "none", ok |-> FALSE]

\* a node that answers every probe, with a balance above the floor
HealthyNode == [blockhash_ok |-> TRUE, balance_ok |-> TRUE, balance |-> 2000000, slot |-> 1]

\* TradingEngine::verify_setup: if balance < 1_000_000 (0.001 SOL); the
\* value of min_required_balance in pre_launch_check
min_required_balance == 1000000

\* what the node answers to get_latest_blockhash, get_balance and get_slot:
\* each call fails or succeeds; balances below, at and above the floor
NodeStates ==
    [blockhash_ok : BOOLEAN, balance_ok : BOOLEAN,
     balance : {0, min_required_balance - 1, min_required_balance, 2 * min_required_balance},
     slot : {0, 1}]

VARIABLES
    \* --- copy_trade (src/types.rs) ---
    cpc,                 \* position of each copy_trade call
    trade_history,       \* TradingEngine.trade_history: sequence of TradeHistory
    copy_ret,            \* what each copy_trade call returned
    submitted,           \* the copy_trade calls in the order they were made
    \* --- engine submissions (src/engine.rs, src/wallet.rs) ---
    pc,                  \* position of each swap task
    mode,                \* which code path runs the swap
    execution_semaphore, \* permits available in TradingEngine.execution_semaphore
    permit,              \* permit[s]: task s holds the _permit guard
    priority_fee,        \* TradingEngine.priority_fee (engine-wide)
    retries,             \* local `retries` of the retry loop of s
    priority_multiplier, \* local `priority_multiplier` of retry_with_escalation
    result,              \* result of the last operation() call of s
    fee,                 \* priority fee of the transaction last drafted for s
    attempts,            \* number of operation() calls made for s
    stop_called,         \* emergency_stop() has run
    exited,              \* the process has exited
    exit_code,           \* its exit code
    halt_in_flight,      \* submissions in flight when emergency_shutdown ran
    \* --- transactions sent (all submission paths) ---
    sent,                \* log of the transactions handed to the node
    \* --- FastCopyTrader::start_copying (src/wallet.rs) ---
    now,                 \* the clock, in milliseconds
    decoded,             \* what parse_raydium_swap made of the last transaction
    spawned,             \* the execute_copy_trade tasks spawned, in order
    \* --- WalletTracker (src/wallet.rs) ---
    tracked_wallets,     \* WalletTracker.tracked_wallets: wallet -> WalletState
    last_query,          \* the last call that read a wallet's state, with its answer
    \* --- RaydiumDex (src/raydium.rs) ---
    dex_calls,           \* the execute_swap calls made, with their outcome
    \* --- the retry loops and the confirmation polling (src/engine.rs) ---
    slept,               \* the delay a retry loop last slept for a swap, in ms
    landing,             \* what became of the transaction the node accepted
    monitor,             \* the polling loop: position, retries, time spent
    \* --- the node (src/engine.rs) ---
    fee_quote,           \* the last calculate_optimal_priority_fee call and its answer
    current_index,       \* RPCConfig.current_index
    last_call,           \* the last call of the node client or of get_next_endpoint
    \* --- BotUI::start_bot and the setup checks (src/menu.rs, src/engine.rs) ---
    node_state,          \* what the node answers to the probes
    running,             \* BotUI.running
    last_check,          \* the last setup check made, with its result
    \* --- the counters of the engine (src/engine.rs 72-73) ---
    transaction_count,   \* TradingEngine.transaction_count
    success_count,       \* TradingEngine.success_count
    \* --- the pool cache of RaydiumDex (src/raydium.rs 53, 125-245) ---
    pools,               \* RaydiumDex.pools, for one pool id: its PoolState or NoPool
    last_validation,     \* the last validate_trade_conditions call, with its result
    \* --- VolumeMonitor (src/volume.rs 17-115) ---
    tracked_tokens,      \* VolumeMonitor.tracked_tokens: token -> its metrics or NoMetrics
    check_result,        \* the last check_token call: the metrics fetched and what it returned
    last_bundle          \* the last bundle_critical_transactions call: its list and its result

ledgerVars == <<cpc, trade_history, copy_ret, submitted>>
engineVars == <<pc, mode, execution_semaphore, permit, priority_fee, retries,
                priority_multiplier, result, fee, attempts>>
haltVars == <<stop_called, exited, exit_code, halt_in_flight>>
copyVars == <<now, decoded, spawned>>
registryVars == <<tracked_wallets, last_query>>
stageVars == <<copyVars, registryVars, dex_calls>>
retryVars == <<slept, landing, monitor>>
nodeVars == <<fee_quote, current_index, last_call>>
startVars == <<node_state, running, last_check>>
countVars == <<transaction_count, success_count>>
poolVars == <<pools, last_validation>>
signalVars == <<tracked_tokens, check_result>>
lateVars == <<startVars, countVars, poolVars, signalVars, last_bundle>>
vars == <<cpc, trade_history, copy_ret, submitted, pc, mode, execution_semaphore, permit,
          priority_fee, retries, priority_multiplier, result, fee, attempts,
          stop_called, exited, exit_code, halt_in_flight, sent, stageVars, retryVars, nodeVars, lateVars>>

Init ==
    /\ cpc = [x \in Txs |-> "idle"]
    /\ trade_history = <<>>
    /\ copy_ret = [x \in Txs |-> "none"]
    /\ submitted = <<>>
    /\ pc = [s \in Swaps |-> "idle"]
    /\ mode = [s \in Swaps |-> "none"]
    /\ execution_semaphore = SemaphorePermits
    /\ permit = [s \in Swaps |-> FALSE]
    /\ priority_fee = base_priority_fee
    /\ retries = [s \in Swaps |-> 0]
    /\ priority_multiplier = [s \in Swaps |-> 1]
    /\ result = [s \in Swaps |-> "none"]
    /\ fee = [s \in Swaps |-> 0]
    /\ attempts = [s \in Swaps |-> 0]
    /\ stop_called = FALSE
    /\ exited = FALSE
    /\ exit_code = 0
    /\ halt_in_flight = {}
    /\ sent = <<>>
    /\ now = 0
    /\ decoded = NoTx
    /\ spawned = <<>>
    /\ tracked_wallets = [w \in Wallets |-> Absent]
    /\ last_query = NoQuery
    /\ dex_calls = <<>>
    /\ slept = [s \in Swaps |-> 0]
    /\ landing = [s \in Swaps |-> "unknown"]
    /\ monitor = NotPolling
    /\ fee_quote = NoQuote
    /\ current_index = 0
    /\ last_call = NoCall
    /\ node_state = HealthyNode
    /\ running = FALSE
    /\ last_check = NoCheck
    /\ transaction_count = 0
    /\ success_count = 0
    /\ pools = NoPool
    /\ last_validation = NoValidation
    /\ tracked_tokens = [token \in Tokens |-> NoMetrics]
    /\ check_result = NoCheckResult
    /\ last_bundle = NoBundle

(***************************************************************************)
(* copy_trade (src/types.rs 64-88)                                         *)
(***************************************************************************)

\* line 65-66: the call of execute_copy_trade(tx), awaited: the swap is
\* submitted here, and the calls are remembered in the order they were made
CopyTradeCall(x) ==
    /\ cpc[x] = "idle"
    /\ cpc' = [cpc EXCEPT ![x] = "executing"]
    /\ submitted' = Append(submitted, x)
    /\ UNCHANGED <<trade_history, copy_ret, engineVars, haltVars, sent, stageVars, retryVars, nodeVars, lateVars>>

\* lines 66-87: execute_copy_trade has returned r. The TradeHistory literal
\* evaluates extract_token_from_tx(tx)?, determine_trade_type(tx)?,
\* extract_amount_from_tx(tx)? and get_execution_price(tx)?: the first helper
\* that fails returns its error from copy_trade before the push of line 80.
CopyTradeRecord(x) ==
    /\ cpc[x] = "executing"
    /\ \E r \in {"Ok", "Err"}, helpers_ok \in BOOLEAN :
         IF ~helpers_ok
         THEN /\ cpc' = [cpc EXCEPT ![x] = "done"]
              /\ copy_ret' = [copy_ret EXCEPT ![x] = "HelperErr"]
              /\ UNCHANGED trade_history
         ELSE /\ trade_history' = Append(trade_history, [tx |-> x, success |-> (r = "Ok")])
              /\ IF r = "Ok"
                 THEN /\ cpc' = [cpc EXCEPT ![x] = "done"]
                      /\ copy_ret' = [copy_ret EXCEPT ![x] = "Ok"]
                 ELSE /\ cpc' = [cpc EXCEPT ![x] = "logging"]
                      /\ UNCHANGED copy_ret
    /\ UNCHANGED <<submitted, engineVars, haltVars, sent, stageVars, retryVars, nodeVars, lateVars>>

\* lines 83-87 and log_trade_error (91-103): get_market_context().await? and
\* analyze_error_patterns()? may fail, and copy_trade then returns that error;
\* otherwise it returns the result of execute_copy_trade.
CopyTradeLogged(x) ==
    /\ cpc[x] = "logging"
    /\ \E log_ok \in BOOLEAN :
         copy_ret' = [copy_ret EXCEPT ![x] = IF log_ok THEN "Err" ELSE "LogErr"]
    /\ cpc' = [cpc EXCEPT ![x] = "done"]
    /\ UNCHANGED <<trade_history, submitted, engineVars, haltVars, sent, stageVars, retryVars, nodeVars, lateVars>>

NextLedger ==
    \E x \in Txs : CopyTradeCall(x) \/ CopyTradeRecord(x) \/ CopyTradeLogged(x)

SpecLedger == Init /\ [][NextLedger]_vars

\* number of trade-history records of transaction x
Records(x) == Cardinality({i \in 1..Len(trade_history) : trade_history[i].tx = x})

\* C1: every swap that entered copy_trade has exactly one trade-history record
\* when copy_trade has finished, whatever failed on the way.
C1_ExactlyOneOutcome ==
    \A x \in Txs : cpc[x] = "done" => Records(x) = 1

\* the transactions of the trade history, in the order of their records
RecordedOrder == [i \in 1..Len(trade_history) |-> trade_history[i].tx]

\* the position of transaction x in the order of submission
SubmittedAt(x) == CHOOSE i \in 1..Len(submitted) : submitted[i] = x

\* get_success_rate (src/engine.rs 136-141), as the pair numerator,
\* denominator: 0.0 when transaction_count == 0, else
\* success_count / transaction_count
get_success_rate ==
    IF transaction_count = 0 THEN <<0, 1>> ELSE <<success_count, transaction_count>>

\* the records of the trade history that are successes
SuccessfulRecords == {i \in 1..Len(trade_history) : trade_history[i].success}

\* C32: the counters of the engine include every outcome of the trade
\* history: the total is the number of records, the successes the number of
\* successful records, and the success rate their quotient.
C32_CountersIncludeEveryOutcome ==
    /\ transaction_count = Len(trade_history)
    /\ success_count = Cardinality(SuccessfulRecords)
    /\ trade_history # <<>> =>
           get_success_rate[1] * Len(trade_history)
               = Cardinality(SuccessfulRecords) * get_success_rate[2]

\* C20: the outcomes of one leader's swaps are appended to the trade history
\* in the order in which the swaps were submitted, whatever the interleaving
\* of the copy_trade calls.
C20_OutcomesInSubmissionOrder ==
    \A i, j \in 1..Len(trade_history) :
        i < j => SubmittedAt(RecordedOrder[i]) < SubmittedAt(RecordedOrder[j])

(***************************************************************************)
(* Errors of the node client (solana_client ClientError) as the code       *)
(* distinguishes them:                                                     *)
(*   "RpcError"           ClientError::RpcError(_)                         *)
(*   "InsufficientFunds"  ClientError::TransactionError(InsufficientFunds) *)
(*   "TransactionError"   ClientError::TransactionError(any other)         *)
(*   "IoError"            ClientError::IoError(_)                          *)
(*   "SigningError"       any other variant                                *)
(***************************************************************************)
ClientErrors == {"RpcError", "InsufficientFunds", "TransactionError", "IoError", "SigningError"}

\* the errors a submission is made to fail with: one per behaviour of the two
\* retry loops (retried by both, retried by both though the funds are missing,
\* retried by retry_with_escalation only)
SendErrors == {"RpcError", "InsufficientFunds", "SigningError"}

\* is_retryable_error (src/engine.rs 430-437)
is_retryable_error(e) == e \in {"RpcError", "InsufficientFunds", "TransactionError", "IoError"}

\* impl From<ClientError> for BotError (src/error.rs 35-47):
\* TransactionError(InsufficientFunds) => InsufficientFunds, RpcError(_) =>
\* NetworkError, every other variant => TransactionError
BotErrorFrom(e) ==
    CASE e = "InsufficientFunds" -> "InsufficientFunds"
      [] e = "RpcError"          -> "NetworkError"
      [] OTHER                   -> "TransactionError"

\* ErrorHandler::handle_error (src/error.rs 55-63)
handle_error(error) ==
    CASE error \in {"NetworkError", "RPCError"}              -> TRUE
      [] error \in {"PreLiquidityError", "PrivilegeError"}   -> TRUE
      [] error = "InsufficientFunds"                        -> FALSE
      [] OTHER                                              -> FALSE

\* C36: the two classifiers agree on the error an operation of the engine
\* returned: is_retryable_error holds of it exactly when handle_error holds
\* of the BotError it converts to.
C36_ClassifiersAgree ==
    \A s \in Swaps :
        result[s] \in ClientErrors =>
            (is_retryable_error(result[s]) <=> handle_error(BotErrorFrom(result[s])))

\* a submission is in flight: its transaction is drafted and the send has not returned
InFlight(s) == pc[s] = "drafted"

(***************************************************************************)
(* execute_early_swap (src/engine.rs 143-192): one attempt                 *)
(***************************************************************************)

\* the call of execute_early_swap on its own (no retry loop around it)
ExecuteEarlySwap(s) ==
    /\ ~exited
    /\ pc[s] = "idle"
    /\ pc' = [pc EXCEPT ![s] = "call"]
    /\ mode' = [mode EXCEPT ![s] = "direct"]
    /\ UNCHANGED <<execution_semaphore, permit, priority_fee, retries,
                   priority_multiplier, result, fee, attempts, ledgerVars, haltVars, sent, stageVars, retryVars, nodeVars, lateVars>>

\* lines 149-162: let _permit = self.execution_semaphore.acquire().await?; when
\* the permit is granted the compute-budget instructions are built from
\* self.priority_fee and the swap instruction is created (no suspension point
\* between them)
Draft(s) ==
    /\ ~exited
    /\ pc[s] = "call"
    /\ execution_semaphore > 0
    /\ execution_semaphore' = execution_semaphore - 1
    /\ permit' = [permit EXCEPT ![s] = TRUE]
    /\ fee' = [fee EXCEPT ![s] = priority_fee]
    /\ pc' = [pc EXCEPT ![s] = "drafted"]
    /\ UNCHANGED <<mode, priority_fee, retries, priority_multiplier, result,
                   attempts, ledgerVars, haltVars, sent, stageVars, retryVars, nodeVars, lateVars>>

\* the operation of s returns r: the _permit guard is dropped on every return
\* path (Ok and `?`), and the caller sees r
OperationReturns(s, r) ==
    /\ result' = [result EXCEPT ![s] = r]
    /\ attempts' = [attempts EXCEPT ![s] = @ + 1]
    /\ permit' = [permit EXCEPT ![s] = FALSE]
    /\ execution_semaphore' = execution_semaphore + 1
    /\ pc' = [pc EXCEPT ![s] = IF mode[s] = "direct" THEN "done" ELSE "returned"]

\* lines 165-191: the blockhash is fetched (`?`), the transaction is signed and
\* sent with send_transaction_with_config(..)? (blocking calls of the node
\* client), and the function returns
Send(s) ==
    /\ ~exited
    /\ pc[s] = "drafted"
    /\ mode[s] # "copy"
    /\ \E r \in {"Ok"} \cup SendErrors : OperationReturns(s, r)
    /\ UNCHANGED <<mode, priority_fee, retries, priority_multiplier, fee, ledgerVars, haltVars, sent, stageVars, retryVars, nodeVars, lateVars>>

\* ErrorHandler::get_retry_delay (src/error.rs 65-67), in milliseconds:
\* Duration::from_millis(50 * 2u64.pow(retries)). retry_with_backoff sleeps
\* self.calculate_backoff(retries, &e) (src/engine.rs 226), a method src/ does
\* not define; get_retry_delay is the delay function the engine has.
get_retry_delay(r) == 50 * 2^r

\* src/engine.rs 700: tokio::time::sleep(Duration::from_millis(10))
escalation_delay == 10

\* the retry loop of s returns: its locals are gone
LoopReturns(s) ==
    /\ pc' = [pc EXCEPT ![s] = "done"]
    /\ retries' = [retries EXCEPT ![s] = 0]
    /\ priority_multiplier' = [priority_multiplier EXCEPT ![s] = 1]
    /\ fee' = [fee EXCEPT ![s] = 0]

(***************************************************************************)
(* retry_with_backoff (src/engine.rs 212-231), operation = one call of     *)
(* execute_early_swap                                                      *)
(***************************************************************************)

\* lines 216-219: retries = 0, then the first operation()
RetryWithBackoff(s) ==
    /\ ~exited
    /\ pc[s] = "idle"
    /\ pc' = [pc EXCEPT ![s] = "call"]
    /\ mode' = [mode EXCEPT ![s] = "backoff"]
    /\ retries' = [retries EXCEPT ![s] = 0]
    /\ UNCHANGED <<execution_semaphore, permit, priority_fee, priority_multiplier,
                   result, fee, attempts, ledgerVars, haltVars, sent, stageVars, retryVars, nodeVars, lateVars>>

\* line 223: if !self.is_retryable_error(&e) || retries >= self.max_retries
BackoffGivesUp(e, r) == ~is_retryable_error(e) \/ r >= max_retries

\* line 221: Ok(result) => return Ok(result)
BackoffOk(s) ==
    /\ ~exited
    /\ pc[s] = "returned" /\ mode[s] = "backoff"
    /\ result[s] = "Ok"
    /\ LoopReturns(s)
    /\ UNCHANGED <<mode, execution_semaphore, permit, priority_fee, result, attempts,
                   ledgerVars, haltVars, sent, stageVars, retryVars, nodeVars, lateVars>>

\* lines 222-225: the error is returned
BackoffFails(s) ==
    /\ ~exited
    /\ pc[s] = "returned" /\ mode[s] = "backoff"
    /\ result[s] # "Ok"
    /\ BackoffGivesUp(result[s], retries[s])
    /\ LoopReturns(s)
    /\ UNCHANGED <<mode, execution_semaphore, permit, priority_fee, result, attempts,
                   ledgerVars, haltVars, sent, stageVars, retryVars, nodeVars, lateVars>>

\* lines 226-227: tokio::time::sleep(..).await; retries += 1; and the loop
\* calls operation() again
BackoffRetries(s) ==
    /\ ~exited
    /\ pc[s] = "returned" /\ mode[s] = "backoff"
    /\ result[s] # "Ok"
    /\ ~BackoffGivesUp(result[s], retries[s])
    /\ retries' = [retries EXCEPT ![s] = @ + 1]
    /\ pc' = [pc EXCEPT ![s] = "call"]
    /\ result' = [result EXCEPT ![s] = "none"]
    /\ slept' = [slept EXCEPT ![s] = get_retry_delay(retries[s])]
    /\ UNCHANGED <<mode, execution_semaphore, permit, priority_fee,
                   priority_multiplier, fee, attempts, ledgerVars, haltVars, sent, stageVars,
                   landing, monitor, nodeVars, lateVars>>

(***************************************************************************)
(* retry_with_escalation (src/engine.rs 686-706), operation = one call of  *)
(* execute_early_swap                                                      *)
(***************************************************************************)

\* lines 690-693: retries = 0, priority_multiplier = 1, then the first operation()
RetryWithEscalation(s) ==
    /\ ~exited
    /\ pc[s] = "idle"
    /\ pc' = [pc EXCEPT ![s] = "call"]
    /\ mode' = [mode EXCEPT ![s] = "escalation"]
    /\ retries' = [retries EXCEPT ![s] = 0]
    /\ priority_multiplier' = [priority_multiplier EXCEPT ![s] = 1]
    /\ UNCHANGED <<execution_semaphore, permit, priority_fee, result, fee, attempts,
                   ledgerVars, haltVars, sent, stageVars, retryVars, nodeVars, lateVars>>

\* the guard of line 696 letting one more retry through
EscalationRetriesOffByOne(r) == r <= max_retries

\* line 696: Err(e) if retries < self.max_retries
EscalationRetries(r) == r < max_retries

\* line 695: Ok(result) => return Ok(result)
EscalationOk(s) ==
    /\ ~exited
    /\ pc[s] = "returned" /\ mode[s] = "escalation"
    /\ result[s] = "Ok"
    /\ LoopReturns(s)
    /\ UNCHANGED <<mode, execution_semaphore, permit, priority_fee, result, attempts,
                   ledgerVars, haltVars, sent, stageVars, retryVars, nodeVars, lateVars>>

\* lines 696-700: retries += 1; priority_multiplier *= 2;
\* self.priority_fee = self.base_priority_fee * priority_multiplier;
\* sleep(10 ms).await; continue
EscalationEscalates(s) ==
    /\ ~exited
    /\ pc[s] = "returned" /\ mode[s] = "escalation"
    /\ result[s] # "Ok"
    /\ EscalationRetries(retries[s])
    /\ retries' = [retries EXCEPT ![s] = @ + 1]
    /\ priority_multiplier' = [priority_multiplier EXCEPT ![s] = @ * 2]
    /\ priority_fee' = base_priority_fee * (priority_multiplier[s] * 2)
    /\ pc' = [pc EXCEPT ![s] = "call"]
    /\ result' = [result EXCEPT ![s] = "none"]
    /\ slept' = [slept EXCEPT ![s] = escalation_delay]
    /\ UNCHANGED <<mode, execution_semaphore, permit, fee, attempts, ledgerVars, haltVars, sent,
                   stageVars, landing, monitor, nodeVars, lateVars>>

\* line 703: Err(e) => return Err(e)
EscalationFails(s) ==
    /\ ~exited
    /\ pc[s] = "returned" /\ mode[s] = "escalation"
    /\ result[s] # "Ok"
    /\ ~EscalationRetries(retries[s])
    /\ LoopReturns(s)
    /\ UNCHANGED <<mode, execution_semaphore, permit, priority_fee, result, attempts,
                   ledgerVars, haltVars, sent, stageVars, retryVars, nodeVars, lateVars>>

Next ==
    \E s \in Swaps :
        \/ RetryWithBackoff(s)
        \/ RetryWithEscalation(s)
        \/ Draft(s)
        \/ Send(s)
        \/ BackoffOk(s)
        \/ BackoffFails(s)
        \/ BackoffRetries(s)
        \/ EscalationOk(s)
        \/ EscalationEscalates(s)
        \/ EscalationFails(s)

Spec == Init /\ [][Next]_vars

\* a swap whose attempt has failed and which waits to be attempted again
BetweenAttempts(s) == attempts[s] > 0 /\ pc[s] = "call"

\* C3: the permit taken for a swap is held from its first attempt across its
\* retries until its final outcome, and no more submissions are in flight than
\* the semaphore has permits.
C3_PermitHeldAcrossRetries ==
    /\ \A s \in Swaps : BetweenAttempts(s) => permit[s]
    /\ Cardinality({s \in Swaps : InFlight(s)}) <= SemaphorePermits

\* C4: from one attempt of a swap to its next the priority fee does not
\* decrease, and it never exceeds 5 times the base priority fee.
C4_FeeMonotoneAndCapped ==
    [][\A s \in Swaps :
          (pc[s] = "call" /\ pc'[s] = "drafted") =>
              /\ fee'[s] <= 5 * base_priority_fee
              /\ attempts[s] > 0 => fee'[s] >= fee[s]]_vars

C6_NoRetryOnInsufficientFunds ==
    [][\A s \in Swaps :
          (pc[s] = "returned" /\ result[s] = "InsufficientFunds" /\ pc'[s] # pc[s])
              => pc'[s] = "done"]_vars

\* C24: the first attempt of a swap is sent at the base priority fee, whatever
\* the swaps finished before it escalated to; and when the first attempt of a
\* swap fails and no other swap is running, its second attempt is sent at
\* exactly twice the base priority fee.
C24_EscalatedFeeNotCarriedOver ==
    [][\A s \in Swaps :
          (/\ pc[s] = "call" /\ pc'[s] = "drafted"
           /\ \A t \in Swaps \ {s} : pc[t] \in {"idle", "done"})
              => /\ attempts[s] = 0 => fee'[s] = base_priority_fee
                 /\ (attempts[s] = 1 /\ mode[s] = "escalation")
                        => fee'[s] = 2 * base_priority_fee]_vars

(***************************************************************************)
(* One swap taken through a retry loop with every error of the node        *)
(* client, what becomes of the transaction the node accepted, and the      *)
(* polling loops monitor_transaction (src/engine.rs 440-459) and           *)
(* retry_failed_transaction (787-799)                                      *)
(***************************************************************************)

\* the swap followed through its retries and its confirmation
WatchedSwaps == {1}

\* execute_early_swap lines 165-191 with any answer of the node client:
\* send_transaction_with_config(..)? returns Ok(signature) as soon as the node
\* has accepted the transaction (skip_preflight, no confirmation awaited)
SendAnyAnswer(s) ==
    /\ ~exited
    /\ pc[s] = "drafted"
    /\ mode[s] # "copy"
    /\ \E r \in {"Ok"} \cup ClientErrors : OperationReturns(s, r)
    /\ UNCHANGED <<mode, priority_fee, retries, priority_multiplier, fee, ledgerVars, haltVars,
                   sent, stageVars, retryVars, nodeVars, lateVars>>

\* the transaction the node accepted is included in a block
Lands(s) ==
    /\ result[s] = "Ok"
    /\ landing[s] = "unknown"
    /\ landing' = [landing EXCEPT ![s] = "landed"]
    /\ UNCHANGED <<engineVars, ledgerVars, haltVars, sent, stageVars, slept, monitor, nodeVars, lateVars>>

\* the blockhash of the transaction the node accepted expires before the
\* transaction is included in a block; no code of the engine is told
Expires(s) ==
    /\ result[s] = "Ok"
    /\ landing[s] = "unknown"
    /\ landing' = [landing EXCEPT ![s] = "expired"]
    /\ UNCHANGED <<engineVars, ledgerVars, haltVars, sent, stageVars, slept, monitor, nodeVars, lateVars>>

\* the polling loop starts: let mut retries = 0, polls `interval` ms apart
StartPolling(s, interval) ==
    /\ pc[s] = "done"
    /\ monitor.pc = "idle"
    /\ monitor' = [pc |-> "polling", retries |-> 0, elapsed |-> 0, interval |-> interval]
    /\ UNCHANGED <<engineVars, ledgerVars, haltVars, sent, stageVars, slept, landing, nodeVars, lateVars>>

\* monitor_transaction(signature), lines 440-441; sleep of line 454
monitor_transaction(s) ==
    /\ result[s] = "Ok"
    /\ StartPolling(s, 100)

\* retry_failed_transaction(tx), lines 787-788; sleep of line 794
retry_failed_transaction(s) ==
    /\ result[s] # "none"
    /\ StartPolling(s, 200)

\* lines 443-456 (789-796): while retries < self.max_retries, one
\* get_transaction call; Ok(_) => return Ok(()), Err(_) => retries += 1 and
\* the sleep. The node has the transaction only once it has landed.
Poll(s) ==
    /\ monitor.pc = "polling"
    /\ monitor.retries < max_retries
    /\ \E found \in BOOLEAN :
         /\ found => landing[s] = "landed"
         /\ monitor' = IF found
                       THEN [monitor EXCEPT !.pc = "landed"]
                       ELSE [monitor EXCEPT !.retries = @ + 1,
                                            !.elapsed = @ + monitor.interval]
    /\ UNCHANGED <<engineVars, ledgerVars, haltVars, sent, stageVars, slept, landing, nodeVars, lateVars>>

\* line 458 (798): the loop is left, Err("Transaction confirmation timeout")
PollingTimesOut ==
    /\ monitor.pc = "polling"
    /\ monitor.retries >= max_retries
    /\ monitor' = [monitor EXCEPT !.pc = "timeout"]
    /\ UNCHANGED <<engineVars, ledgerVars, haltVars, sent, stageVars, slept, landing, nodeVars, lateVars>>

NextRetry ==
    \/ \E s \in WatchedSwaps :
        \/ RetryWithBackoff(s)
        \/ RetryWithEscalation(s)
        \/ Draft(s)
        \/ SendAnyAnswer(s)
        \/ BackoffOk(s)
        \/ BackoffFails(s)
        \/ BackoffRetries(s)
        \/ EscalationOk(s)
        \/ EscalationEscalates(s)
        \/ EscalationFails(s)
        \/ Lands(s)
        \/ Expires(s)
        \/ monitor_transaction(s)
        \/ retry_failed_transaction(s)
        \/ Poll(s)
    \/ PollingTimesOut

SpecRetry == Init /\ [][NextRetry]_vars

\* the errors of the node client that are transient: network, rate limit,
\* node-side failure, timeout
TransientErrors == {"RpcError", "IoError"}

\* C21: a submission that fails with a transient error is attempted again
\* whenever attempts remain, and a submission whose transaction expires
\* without landing is not finalized while attempts remain.
C21_TransientAndExpiredAreRetried ==
    [][\A s \in Swaps :
          /\ (/\ pc[s] = "returned" /\ result[s] \in TransientErrors
              /\ attempts[s] < max_retries /\ pc'[s] # pc[s])
                 => pc'[s] = "call"
          /\ (landing'[s] = "expired" /\ attempts'[s] < max_retries)
                 => pc'[s] # "done"]_vars

\* C22: a submission that the program rejected (slippage exceeded or another
\* program error) is never attempted again: the retry loop's next step
\* returns the error.
C22_NoRetryOnProgramError ==
    [][\A s \in Swaps :
          (pc[s] = "returned" /\ result[s] = "TransactionError" /\ pc'[s] # pc[s])
              => pc'[s] = "done"]_vars

\* C23: the delay slept before a retry is 50 ms times 2 to the number of
\* the attempt (counted from 0 or from 1): it doubles from one retry to the
\* next.
C23_DelayDoublesFromBase ==
    [][\A s \in Swaps :
          retries'[s] = retries[s] + 1
              => slept'[s] \in {50 * 2^retries[s], 50 * 2^retries'[s]}]_vars

\* C25: the polling loop gives up with a timeout only once the landing
\* timeout of 30 s has elapsed.
C25_TimeoutOnlyAfterLandingTimeout ==
    monitor.pc = "timeout" => monitor.elapsed >= 30000

(***************************************************************************)
(* FastCopyTrader (src/wallet.rs 368-428): the subscription callback       *)
(* spawns one task per swap of the target wallet                           *)
(***************************************************************************)

\* start_copying, lines 389-394: the callback gets a transaction of the target
\* wallet, parse_raydium_swap returns Some(swap_info), and
\* tokio::spawn(self.execute_copy_trade(swap_info)) starts a task
SwapEvent(s) ==
    /\ ~exited
    /\ pc[s] = "idle"
    /\ pc' = [pc EXCEPT ![s] = "spawned"]
    /\ mode' = [mode EXCEPT ![s] = "copy"]
    /\ UNCHANGED <<execution_semaphore, permit, priority_fee, retries,
                   priority_multiplier, result, fee, attempts, ledgerVars, haltVars, sent, stageVars, retryVars, nodeVars, lateVars>>

\* execute_copy_trade, lines 401-406: the spawned task runs and builds the
\* swap instruction (amm_instruction::swap(..)?); no permit is asked for
CopyDraft(s) ==
    /\ ~exited
    /\ pc[s] = "spawned"
    /\ pc' = [pc EXCEPT ![s] = "drafted"]
    /\ UNCHANGED <<mode, execution_semaphore, permit, priority_fee, retries,
                   priority_multiplier, result, fee, attempts, ledgerVars, haltVars, sent, stageVars, retryVars, nodeVars, lateVars>>

\* execute_copy_trade, lines 408-427: the blockhash is fetched (`?`), the
\* transaction is signed and sent (`?`), and the task ends
CopySend(s) ==
    /\ ~exited
    /\ pc[s] = "drafted"
    /\ mode[s] = "copy"
    /\ \E r \in {"Ok"} \cup SendErrors :
         /\ result' = [result EXCEPT ![s] = r]
         /\ attempts' = [attempts EXCEPT ![s] = @ + 1]
    /\ pc' = [pc EXCEPT ![s] = "done"]
    /\ UNCHANGED <<mode, execution_semaphore, permit, priority_fee, retries,
                   priority_multiplier, fee, ledgerVars, haltVars, sent, stageVars, retryVars, nodeVars, lateVars>>

(***************************************************************************)
(* emergency_stop (src/engine.rs 757-760) and emergency_shutdown (802-808) *)
(***************************************************************************)

\* emergency_stop prints a line and returns: no field of the engine changes
\* (stop_called only records that it ran)
emergency_stop ==
    /\ ~exited
    /\ ~stop_called
    /\ stop_called' = TRUE
    /\ UNCHANGED <<exited, exit_code, halt_in_flight, engineVars, ledgerVars, sent, stageVars, retryVars, nodeVars, lateVars>>

\* emergency_shutdown prints a line and calls std::process::exit(1): the
\* process ends at once, whatever the tasks are doing (halt_in_flight records
\* the submissions in flight at that instant)
emergency_shutdown ==
    /\ ~exited
    /\ exited' = TRUE
    /\ exit_code' = ShutdownExitCode
    /\ halt_in_flight' = {s \in Swaps : InFlight(s)}
    /\ UNCHANGED <<stop_called, engineVars, ledgerVars, sent, stageVars, retryVars, nodeVars, lateVars>>

NextSubmit ==
    \/ \E s \in Swaps :
        \/ SwapEvent(s)
        \/ CopyDraft(s)
        \/ CopySend(s)
        \/ ExecuteEarlySwap(s)
        \/ Draft(s)
        \/ Send(s)
    \/ emergency_stop
    \/ emergency_shutdown

SpecSubmit == Init /\ [][NextSubmit]_vars

\* C2: at most one submission of the leader is in flight (FastCopyTrader
\* copies one leader, target_wallet; the engine's permit is not per leader).
C2_SingleFlightPerLeader ==
    Cardinality({s \in Swaps : InFlight(s)}) <= 1

\* C9: once the emergency stop has been called no new submission is drafted.
C9_NoDraftAfterEmergencyStop ==
    [][stop_called => \A s \in Swaps : InFlight(s)' => InFlight(s)]_vars

\* C10: when the emergency shutdown comes while submissions are in flight,
\* the process exits with code 3, every one of those submissions has reached
\* its outcome and every permit is released.
C10_DrainThenExitCode3 ==
    (exited /\ halt_in_flight # {}) =>
        /\ exit_code = 3
        /\ \A s \in halt_in_flight : pc[s] = "done"
        /\ execution_semaphore = SemaphorePermits

(***************************************************************************)
(* The transactions the submission paths send.  A transaction is recorded  *)
(* with the path that sent it, its owner, its instructions in order        *)
(* ("limit" = set_compute_unit_limit, "price" = set_compute_unit_price,    *)
(* "swap" = a swap instruction) and the send configuration: skip_preflight *)
(* and max_retries (Option<usize> as a set: {0} = Some(0), {} = None).     *)
(* A call that fails before its send (pool or blockhash fetch) sends       *)
(* nothing and leaves the log as it is.                                    *)
(***************************************************************************)

\* the RpcSendTransactionConfig literal of every send_transaction_with_config
\* call (and TX_CONFIG, src/engine.rs 812-818): skip_preflight: true,
\* max_retries: Some(0)
TX_CONFIG == [skip_preflight |-> TRUE, max_retries |-> {0}]

\* send_and_confirm_transaction(&tx) (src/raydium.rs 112) takes no
\* configuration: the client's default, preflight on and max_retries: None
DEFAULT_CONFIG == [skip_preflight |-> FALSE, max_retries |-> {}]

SentTx(path, by, ixs, config) ==
    [path |-> path, by |-> by, ixs |-> ixs,
     skip_preflight |-> config.skip_preflight, max_retries |-> config.max_retries]

\* the log takes n more transactions
Room(n) == Len(sent) + n <= MaxSent

SendOne(tx) ==
    /\ sent' = Append(sent, tx)
    /\ UNCHANGED <<engineVars, ledgerVars, haltVars, stageVars, retryVars, nodeVars, lateVars>>

\* n swap instructions
Swaps_ix(n) == [i \in 1..n |-> "swap"]

\* transactions a caller hands over ready-made
CallerTxs == {<<"swap">>, <<"limit", "price", "swap">>}

\* execute_transaction (src/engine.rs 102-134): &[priority_ix, compute_ix, instruction]
execute_transaction ==
    /\ Room(1)
    /\ SendOne(SentTx("execute_transaction", "engine", <<"price", "limit", "swap">>, TX_CONFIG))

\* execute_early_swap (src/engine.rs 143-192): &[priority_ix, compute_ix, swap_ix]
execute_early_swap ==
    /\ Room(1)
    /\ SendOne(SentTx("execute_early_swap", "engine", <<"price", "limit", "swap">>, TX_CONFIG))

\* bundle_transactions (src/engine.rs 251-284): vec![compute_budget_ix,
\* priority_fee_ix] extended by the instructions
bundle_transactions ==
    /\ Room(1)
    /\ \E n \in 1..MaxBundle :
         SendOne(SentTx("bundle_transactions", "engine",
                       <<"limit", "price">> \o Swaps_ix(n), TX_CONFIG))

\* execute_pre_liquidity_swap (src/engine.rs 354-385): &[compute_ix, priority_ix, swap_ix]
execute_pre_liquidity_swap ==
    /\ Room(1)
    /\ SendOne(SentTx("execute_pre_liquidity_swap", "engine", <<"limit", "price", "swap">>, TX_CONFIG))

\* chunks(chunk_size): the number of chunks of a list
NumChunks(ixs) == (Len(ixs) + chunk_size - 1) \div chunk_size

\* a chunk of 7 where the code cuts 6
ChunkOfSeven(ixs, i) ==
    SubSeq(ixs, (i - 1) * (chunk_size + 1) + 1,
           IF i * (chunk_size + 1) < Len(ixs) THEN i * (chunk_size + 1) ELSE Len(ixs))

\* chunks(chunk_size): the i-th chunk of a list
Chunk(ixs, i) ==
    SubSeq(ixs, (i - 1) * chunk_size + 1,
           IF i * chunk_size < Len(ixs) THEN i * chunk_size ELSE Len(ixs))

\* the instructions a caller hands to bundle_critical_transactions, each with
\* a name of its own
CallerIxs == <<"swap1", "swap2", "swap3", "swap4", "swap5", "swap6", "swap7", "swap8">>

\* bundle_critical_transactions (src/engine.rs 394-427): the list is prefixed
\* with the two compute-budget instructions; get_latest_blockhash()? returns
\* the error of the node before anything is sent; the list is cut in chunks
\* of 6, each chunk is one transaction, and the first send that fails (`?`)
\* ends the loop: with failed_at = 0 every chunk is sent, else the chunks up
\* to the one that fails
bundle_critical_transactions ==
    \E n \in 1..MaxBundle, blockhash_ok \in BOOLEAN :
        LET final_ixs == <<"limit", "price">> \o SubSeq(CallerIxs, 1, n) IN
        \E failed_at \in 0..NumChunks(final_ixs) :
            LET k == IF ~blockhash_ok THEN 0
                     ELSE IF failed_at = 0 THEN NumChunks(final_ixs) ELSE failed_at
            IN  /\ Room(k)
                /\ sent' = sent \o [i \in 1..k |->
                       SentTx("bundle_critical_transactions", "engine", Chunk(final_ixs, i), TX_CONFIG)]
                /\ last_bundle' = [result |-> IF blockhash_ok /\ failed_at = 0 THEN "Ok" ELSE "Err",
                                   final_ixs |-> final_ixs,
                                   failed_at |-> IF blockhash_ok THEN failed_at ELSE 0]
                /\ UNCHANGED <<engineVars, ledgerVars, haltVars, stageVars, retryVars, nodeVars,
                               startVars, countVars, poolVars, signalVars>>

\* execute_protected_trade (src/engine.rs 517-542): limit, price, instruction
execute_protected_trade ==
    /\ Room(1)
    /\ SendOne(SentTx("execute_protected_trade", "engine", <<"limit", "price", "swap">>, TX_CONFIG))

\* submit_private_transaction (src/engine.rs 545-566), the public-mempool
\* branch: the caller's transaction is sent as it is
submit_private_transaction ==
    /\ Room(1)
    /\ \E ixs \in CallerTxs :
         SendOne(SentTx("submit_private_transaction", "engine", ixs, TX_CONFIG))

\* execute_privileged_swap (src/engine.rs 569-607): &[compute_ix, priority_ix, swap_ix]
execute_privileged_swap ==
    /\ Room(1)
    /\ SendOne(SentTx("execute_privileged_swap", "engine", <<"limit", "price", "swap">>, TX_CONFIG))

\* execute_with_max_priority (src/engine.rs 723-735): the caller's transaction
execute_with_max_priority ==
    /\ Room(1)
    /\ \E ixs \in CallerTxs :
         SendOne(SentTx("execute_with_max_priority", "engine", ixs, TX_CONFIG))

\* BotUI::execute_direct_swap (src/menu.rs 155-189): limit, price, ix
execute_direct_swap ==
    /\ Room(1)
    /\ SendOne(SentTx("execute_direct_swap", "ui", <<"limit", "price", "swap">>, TX_CONFIG))

\* FastCopyTrader::execute_copy_trade (src/wallet.rs 400-428): &[ix],
\* skip_preflight: true, max_retries: Some(0)
execute_copy_trade ==
    /\ Room(1)
    /\ SendOne(SentTx("execute_copy_trade", "copier", <<"swap">>, TX_CONFIG))

\* FastCopyTrader::copy_swap (src/wallet.rs 430-461): &[swap_ix], same configuration
copy_swap ==
    /\ Room(1)
    /\ SendOne(SentTx("copy_swap", "copier", <<"swap">>, TX_CONFIG))

\* the number of values of a machine word (2^24; see PriceImpactTooHigh)
Word == 16777216

\* lines 118-119: base_amount + amount_in or base_amount * quote_amount does
\* not fit the word
Overflows(base_amount, quote_amount, amount_in) ==
    base_amount + amount_in >= Word \/ base_amount * quote_amount >= Word

\* RaydiumDex::calculate_price_impact (src/raydium.rs 116-123) compared with
\* max_slippage (line 93), max_slippage given in percent:
\*   price_before = quote / base, new_base = base + amount_in,
\*   new_quote = (base * quote) / new_base (integer division),
\*   price_after = new_quote / new_base,
\*   |price_before - price_after| / price_before > max_slippage
\* The reserves and the amount are u64 and `+` and `*` are the machine
\* operations: in a build without overflow checks a result that does not fit
\* the word wraps around. The word of the model has 24 bits instead of 64,
\* which keeps every product of the comparison within the integers of the
\* model checker; 4096 * 4096 wraps here as 2^32 * 2^32 does in the source.
PriceImpactTooHigh(base_amount, quote_amount, amount_in, max_slippage_pct) ==
    LET new_base == (base_amount + amount_in) % Word
        new_quote == ((base_amount * quote_amount) % Word) \div new_base
        diff == quote_amount * new_base - new_quote * base_amount
        abs == IF diff < 0 THEN -diff ELSE diff
    IN  abs * 100 > max_slippage_pct * quote_amount * new_base

\* RaydiumDex::execute_swap (src/raydium.rs 83-114): a price impact above
\* max_slippage returns an error; otherwise &[swap_ix] is sent with
\* send_and_confirm_transaction
raydium_execute_swap ==
    \E base_amount \in {1000}, quote_amount \in {1000, 2000}, amount_in \in {1, 100},
       max_slippage_pct \in {2} :
        /\ ~PriceImpactTooHigh(base_amount, quote_amount, amount_in, max_slippage_pct)
        /\ Room(1)
        /\ SendOne(SentTx("RaydiumDex::execute_swap", "dex", <<"swap">>, DEFAULT_CONFIG))

NextSend ==
    \/ execute_transaction
    \/ execute_early_swap
    \/ bundle_transactions
    \/ execute_pre_liquidity_swap
    \/ bundle_critical_transactions
    \/ execute_protected_trade
    \/ submit_private_transaction
    \/ execute_privileged_swap
    \/ execute_with_max_priority
    \/ execute_direct_swap
    \/ execute_copy_trade
    \/ copy_swap
    \/ raydium_execute_swap

SpecSend == Init /\ [][NextSend]_vars

SentTxs == {sent[i] : i \in 1..Len(sent)}

\* C7: every transaction the engine sends starts with the compute-unit limit
\* instruction, then the compute-unit price instruction, then the swap.
C7_ComputeBudgetPrefix ==
    \A tx \in SentTxs :
        tx.by = "engine" =>
            /\ Len(tx.ixs) >= 3
            /\ tx.ixs[1] = "limit"
            /\ tx.ixs[2] = "price"

\* C8: every transaction sent on any path is sent with preflight skipped and
\* node-side retries set to 0.
C8_SkipPreflightNoNodeRetries ==
    \A tx \in SentTxs : tx.skip_preflight /\ tx.max_retries = {0}

\* the instructions of the transactions of a log, one after the other
RECURSIVE AllIxs(_)
AllIxs(txs) == IF txs = <<>> THEN <<>> ELSE Head(txs).ixs \o AllIxs(Tail(txs))

amm_program_id == "675kPX9MHTjS2zt1qfr1NYHuzeLXfQM9H24wFSUt1Mp8"
compute_budget_id == "ComputeBudget111111111111111111111111111111"

\* u64::to_le_bytes: the k low bytes of n, lowest first
RECURSIVE le_bytes(_, _)
le_bytes(n, k) == IF k = 0 THEN <<>> ELSE <<n % 256>> \o le_bytes(n \div 256, k - 1)
to_le_bytes(n) == le_bytes(n, 8)

\* u64::from_le_bytes of a slice of 8 bytes (what data[a..b].try_into() stands for)
RECURSIVE from_le_bytes(_)
from_le_bytes(b) == IF b = <<>> THEN 0 ELSE Head(b) + 256 * from_le_bytes(Tail(b))

\* the results of the decoder: None, Some(SwapInfo), or a panic of the thread
None == [kind |-> "None"]
Panic == [kind |-> "Panic"]
Some(info) == [kind |-> "Some", info |-> info]

\* positions of the instructions of tx that target the AMM program
AmmIndexes(tx) ==
    {i \in 1..Len(tx.instructions) : tx.instructions[i].program_id = amm_program_id}

\* the search taking the last instruction of the AMM program
find_last_amm_instruction(tx) ==
    CHOOSE i \in AmmIndexes(tx) : \A j \in AmmIndexes(tx) : i >= j

\* lines 464-466: instructions.iter().find(|ix| ix.program_id ==
\* self.amm_program_id): the position of the first instruction of the AMM program
find_amm_instruction(tx) ==
    CHOOSE i \in AmmIndexes(tx) : \A j \in AmmIndexes(tx) : i <= j

\* parse_raydium_swap: .find() takes the first instruction of the AMM program,
\* None when there is none; the closure then indexes accounts[1], data[0..8],
\* data[8..16], accounts[3], accounts[4] in this order, and an index or a range
\* past the end panics. (Sequences are 1-based: accounts[1] is accounts[2] here.)
parse_raydium_swap(tx) ==
    IF AmmIndexes(tx) = {} THEN None
    ELSE LET ix == tx.instructions[find_amm_instruction(tx)]
         IN  IF Len(ix.accounts) < 2 THEN Panic
             ELSE IF Len(ix.data) < 8 THEN Panic
             ELSE IF Len(ix.data) < 16 THEN Panic
             ELSE IF Len(ix.accounts) < 4 THEN Panic
             ELSE IF Len(ix.accounts) < 5 THEN Panic
             ELSE Some([pool_id |-> ix.accounts[2],
                        amount_in |-> from_le_bytes(SubSeq(ix.data, 1, 8)),
                        min_amount_out |-> from_le_bytes(SubSeq(ix.data, 9, 16)),
                        token_in |-> ix.accounts[4],
                        token_out |-> ix.accounts[5]])

\* create_privileged_swap is defined twice in src/engine.rs, and either
\* definition may be the one a build keeps.
\* lines 708-721: data = amount.to_le_bytes() followed by the privileged flag
\* 1; accounts = token, payer, system program
create_privileged_swap(token, amount) ==
    [program_id |-> amm_program_id,
     accounts |-> <<token, "payer", "system_program">>,
     data |-> to_le_bytes(amount) \o <<1>>]

\* lines 194-210: data = amount.to_le_bytes(); accounts = token, system program
create_privileged_swap_minimal(token, amount) ==
    [program_id |-> amm_program_id,
     accounts |-> <<token, "system_program">>,
     data |-> to_le_bytes(amount)]

\* set_compute_unit_limit / set_compute_unit_price instructions
compute_ix == [program_id |-> compute_budget_id, accounts |-> <<>>, data |-> <<2>>]
priority_ix == [program_id |-> compute_budget_id, accounts |-> <<>>, data |-> <<3>>]

\* the transaction execute_early_swap (src/engine.rs 143-192) signs for a swap
\* intent: &[priority_ix, compute_ix, swap_ix], swap_ix built by
\* create_privileged_swap from the token bought and the input amount
EarlySwapTxs(intent) ==
    {[signatures |-> 1, signer |-> "payer",
      instructions |-> <<priority_ix, compute_ix, swap_ix>>] :
        swap_ix \in {create_privileged_swap(intent.token_out, intent.amount_in),
                     create_privileged_swap_minimal(intent.token_out, intent.amount_in)}}

\* the amounts swaps are made with (300 takes two bytes)
SwapAmounts == {<<300, 1>>, <<0, 0>>}

\* swap intents: pool, token_in, token_out, amount_in, min_out
SwapIntents ==
    {[pool_id |-> "P", token_in |-> "A", token_out |-> "B",
      amount_in |-> am[1], min_amount_out |-> am[2]] : am \in SwapAmounts}

\* account lists of 1, 3, 4 and 5 accounts
AccountLists == {<<"U">>, <<"B", "payer", "system_program">>,
                 <<"U", "P", "Q", "A">>, <<"U", "P", "Q", "A", "B">>}

\* instruction data: the two amounts and a flag byte, cut after n bytes
DataLens == {0, 7, 15, 16, 17}
SwapData ==
    {SubSeq(to_le_bytes(am[1]) \o to_le_bytes(am[2]) \o <<1>>, 1, n) :
        am \in SwapAmounts, n \in DataLens}

Instructions ==
    {[program_id |-> p, accounts |-> a, data |-> d] :
        p \in {amm_program_id, compute_budget_id}, a \in AccountLists, d \in SwapData}

\* AMM instructions of 1 and 5 accounts with both amounts in their data
AmmSample ==
    {ix \in Instructions :
        /\ ix.program_id = amm_program_id
        /\ Len(ix.accounts) \in {1, 5}
        /\ Len(ix.data) = 16}

\* instruction lists: none, one instruction, a compute-budget instruction
\* followed by one instruction, two AMM instructions
InstructionLists ==
    {<<>>} \cup {<<ix>> : ix \in Instructions} \cup {<<compute_ix, ix>> : ix \in Instructions}
        \cup {<<ix1, ix2>> : ix1 \in AmmSample, ix2 \in AmmSample}

\* the transactions the node may hand to the decoder: unsigned or signed, first
\* account key the copied wallet or another account
DecoderTxs ==
    {[signatures |-> n, signer |-> k, instructions |-> ixs] :
        n \in {0, 1}, k \in {target_wallet, OtherAccount}, ixs \in InstructionLists}

\* the decoder is applied to a transaction of the node
Decode ==
    /\ \E tx \in DecoderTxs :
         decoded' = [tx |-> tx, from |-> NoTx, result |-> parse_raydium_swap(tx)]
    /\ UNCHANGED <<now, spawned, registryVars, dex_calls, engineVars, ledgerVars, haltVars, sent, retryVars, nodeVars, lateVars>>

\* a swap intent is built into a transaction by the engine, and decoded
RoundTrip ==
    /\ \E intent \in SwapIntents : \E tx \in EarlySwapTxs(intent) :
         decoded' = [tx |-> tx, from |-> intent, result |-> parse_raydium_swap(tx)]
    /\ UNCHANGED <<now, spawned, registryVars, dex_calls, engineVars, ledgerVars, haltVars, sent, retryVars, nodeVars, lateVars>>

NextDecode == Decode \/ RoundTrip

SpecDecode == Init /\ [][NextDecode]_vars

\* the first AMM instruction of tx, where it has one
HasAmm(tx) == AmmIndexes(tx) # {}
FirstAmm(tx) ==
    tx.instructions[CHOOSE i \in AmmIndexes(tx) : \A j \in AmmIndexes(tx) : i <= j]

\* C11: the decoder returns None for a transaction with no instruction, for
\* one whose AMM instruction has fewer than 16 data bytes and for one whose
\* AMM instruction has fewer than 5 accounts.
C11_NoneOnMalformed ==
    decoded # NoTx =>
        LET tx == decoded.tx IN
        (\/ tx.instructions = <<>>
         \/ HasAmm(tx) /\ Len(FirstAmm(tx).data) < 16
         \/ HasAmm(tx) /\ Len(FirstAmm(tx).accounts) < 5)
            => decoded.result = None

\* the transaction made of the instruction of tx at position i alone
OnlyInstruction(tx, i) == [tx EXCEPT !.instructions = <<tx.instructions[i]>>]

\* the position of the first AMM instruction of tx in program order
FirstAmmIndex(tx) == CHOOSE i \in AmmIndexes(tx) : \A j \in AmmIndexes(tx) : j >= i

\* C26: a transaction with several AMM instructions is decoded as the
\* transaction made of its first AMM instruction alone: the other AMM
\* instructions have no part in the result.
C26_FirstAmmInstructionWins ==
    (decoded # NoTx /\ Cardinality(AmmIndexes(decoded.tx)) >= 2) =>
        decoded.result = parse_raydium_swap(OnlyInstruction(decoded.tx, FirstAmmIndex(decoded.tx)))

\* a transaction of two well-formed AMM instructions with different amounts
\* has been decoded to the amounts of the first
C26_Witness ==
    /\ decoded # NoTx
    /\ Len(decoded.tx.instructions) = 2
    /\ Cardinality(AmmIndexes(decoded.tx)) = 2
    /\ decoded.tx.instructions[1].data # decoded.tx.instructions[2].data
    /\ decoded.result.kind = "Some"
    /\ decoded.result.info.amount_in =
           from_le_bytes(SubSeq(decoded.tx.instructions[1].data, 1, 8))
    /\ decoded.result.info.amount_in #
           from_le_bytes(SubSeq(decoded.tx.instructions[2].data, 1, 8))

\* C13: decoding the transaction built from a swap intent returns the intent.
C13_RoundTrip ==
    (decoded # NoTx /\ decoded.from # NoTx) => decoded.result = Some(decoded.from)

(***************************************************************************)
(* FastCopyTrader::start_copying (src/wallet.rs 368-398): the callback of  *)
(* the subscription decodes each transaction and spawns execute_copy_trade *)
(* for each swap it finds.  The filters of the subscription name the       *)
(* copied wallet as 32 bytes at offset 32 of 165 bytes of data, not the    *)
(* signer of the transaction.                                              *)
(***************************************************************************)

\* the transactions handed to the callback: one instruction with five
\* accounts, either of the AMM program, whole (16 bytes) or cut short (15
\* bytes), or of another program (16 bytes)
CopyTxs ==
    {tx \in DecoderTxs :
        /\ Len(tx.instructions) = 1
        /\ Len(tx.instructions[1].accounts) = 5
        /\ \/ /\ tx.instructions[1].program_id = amm_program_id
              /\ Len(tx.instructions[1].data) \in {15, 16}
           \/ /\ tx.instructions[1].program_id # amm_program_id
              /\ Len(tx.instructions[1].data) = 16}

\* lines 389-394: the callback runs on one transaction: parse_raydium_swap,
\* and on Some(swap_info) tokio::spawn(self.execute_copy_trade(swap_info)).
\* A panic of the decoder unwinds the callback and ends the subscription.
start_copying_callback ==
    /\ decoded # NoTx => decoded.result.kind # "Panic"
    /\ \E tx \in CopyTxs :
         LET r == parse_raydium_swap(tx) IN
         /\ decoded' = [tx |-> tx, from |-> NoTx, result |-> r]
         /\ IF r.kind = "Some"
            THEN /\ Len(spawned) < MaxSpawned
                 /\ spawned' = Append(spawned,
                        [swap_info |-> r.info, signatures |-> tx.signatures,
                         signer |-> tx.signer, at |-> now])
            ELSE UNCHANGED spawned
    /\ UNCHANGED <<now, registryVars, dex_calls, engineVars, ledgerVars, haltVars, sent, retryVars, nodeVars, lateVars>>

\* time passes between two transactions
Tick ==
    /\ now < MaxNow
    /\ now' = now + TickMs
    /\ UNCHANGED <<decoded, spawned, registryVars, dex_calls, engineVars, ledgerVars, haltVars, sent, retryVars, nodeVars, lateVars>>

NextCopy == start_copying_callback \/ Tick

SpecCopy == Init /\ [][NextCopy]_vars

\* C12: a transaction with no signature, or whose first signer is not the
\* tracked leader, never yields a swap from the decoder, and no copy is
\* spawned for it.
C12_UntrackedSignerRejected ==
    /\ decoded # NoTx =>
         ((decoded.tx.signatures = 0 \/ decoded.tx.signer # target_wallet)
             => decoded.result.kind # "Some")
    /\ \A i \in 1..Len(spawned) :
         spawned[i].signatures > 0 /\ spawned[i].signer = target_wallet

\* C27: a transaction the decoder finds no swap in starts no copy, adds no
\* record to the trade history and changes no wallet's state, and the
\* failure to decode is swallowed: the callback returns and the
\* subscription goes on.
C27_DecodeFailureSwallowed ==
    [][(decoded' # decoded /\ decoded'.result.kind # "Some") =>
          /\ spawned' = spawned
          /\ trade_history' = trade_history
          /\ tracked_wallets' = tracked_wallets
          /\ decoded'.result.kind = "None"]_vars

\* C19: two copies accepted for the same leader are at least cooldown_ms
\* (250 ms) apart.
C19_CooldownBetweenCopies ==
    \A i, j \in 1..Len(spawned) :
        (i < j /\ spawned[i].signer = spawned[j].signer)
            => spawned[j].at - spawned[i].at >= 250

(***************************************************************************)
(* WalletTracker and WalletState (src/wallet.rs 20-334): the trades        *)
(* recorded for each tracked wallet and the statistics computed from them. *)
(* A recorded trade is [success, amount_in, timestamp].                    *)
(***************************************************************************)

\* WalletTracker::new(rpc_url, min_amount): min_transaction_amount
min_transaction_amount == 1

\* Duration::from_secs(24 * 60 * 60), in milliseconds
DayMs == 86400000

\* the trades handle_trade is given: track_wallet hands over trades of at
\* least min_transaction_amount only
Trades ==
    {[success |-> b, amount_in |-> min_transaction_amount, timestamp |-> now] :
        b \in BOOLEAN}

\* WalletState::new
WalletState_new ==
    [last_transaction |-> <<>>, transaction_history |-> <<>>,
     last_update |-> now, total_volume_24h |-> 0]

\* .map(|tx| tx.amount_in).sum(), the sequence summed by halves
RECURSIVE SumAmountIn(_)
SumAmountIn(h) ==
    IF h = <<>> THEN 0
    ELSE IF Len(h) = 1 THEN h[1].amount_in
    ELSE LET half == Len(h) \div 2
         IN  SumAmountIn(SubSeq(h, 1, half)) + SumAmountIn(SubSeq(h, half + 1, Len(h)))

\* WalletState::update_volume (52-59): the amounts of the trades later than
\* a day ago
update_volume(history) ==
    SumAmountIn(SelectSeq(history, LAMBDA tx : tx.timestamp > now - DayMs))

\* WalletState::add_transaction (46-50)
add_transaction(state, tx) ==
    [state EXCEPT !.last_transaction = <<tx>>,
                  !.transaction_history = Append(@, tx),
                  !.total_volume_24h = update_volume(Append(state.transaction_history, tx))]

\* WalletTracker::handle_trade (231-239): entry(wallet).or_insert_with(new),
\* add_transaction, last_update = now
handle_trade(w, trade) ==
    LET state == IF tracked_wallets[w] = Absent THEN WalletState_new ELSE tracked_wallets[w]
    IN  [tracked_wallets EXCEPT ![w] = [add_transaction(state, trade) EXCEPT !.last_update = now]]

\* WalletTracker::parse_transaction (294-297): None, whatever the transaction
parse_transaction(tx) == None

\* the transactions of a tracked wallet the node hands to the callback
TrackedTxs == {tx \in CopyTxs : tx.signatures = 1 /\ tx.signer = target_wallet}

\* the callback of track_wallet (191-198) on one transaction of wallet w
track_wallet_callback(w) ==
    /\ \E tx \in TrackedTxs :
         LET trade == parse_transaction(tx) IN
         IF trade.kind = "Some" /\ trade.info.amount_in >= min_transaction_amount
         THEN tracked_wallets' = handle_trade(w, trade.info)
         ELSE UNCHANGED tracked_wallets
    /\ last_query' = [call |-> "track_wallet", wallet |-> w]
    /\ UNCHANGED <<copyVars, dex_calls, engineVars, ledgerVars, haltVars, sent, retryVars, nodeVars, lateVars>>

\* number of trades recorded for wallet w
RecordedTrades(w) ==
    IF tracked_wallets[w] = Absent THEN 0 ELSE Len(tracked_wallets[w].transaction_history)

\* handle_trade is called with a trade of wallet w: the operation that
\* records a trade (the statistics below are those of the states it builds)
RecordTrade(w) ==
    /\ RecordedTrades(w) < MaxTrades
    /\ \E trade \in Trades : tracked_wallets' = handle_trade(w, trade)
    /\ last_query' = NoQuery
    /\ UNCHANGED <<copyVars, dex_calls, engineVars, ledgerVars, haltVars, sent, retryVars, nodeVars, lateVars>>

\* WalletState::analyze_pattern (61-87): None below 5 trades, else the counts
analyze_pattern(state) ==
    LET h == state.transaction_history IN
    IF Len(h) < 5 THEN None
    ELSE Some([success_count |-> Cardinality({i \in 1..Len(h) : h[i].success}),
               total_trades |-> Len(h),
               avg_amount |-> SumAmountIn(h)])

\* WalletState::should_copy_trade (89-96): no pattern, no copy; else
\* success_rate() > 0.7 && total_trades > 10 && amount_in >= min_transaction_amount,
\* the rate success_count / total_trades compared by cross-multiplication
should_copy_trade(state, amount_in) ==
    LET pattern == analyze_pattern(state) IN
    IF pattern.kind = "None" THEN FALSE
    ELSE /\ 10 * pattern.info.success_count > 7 * pattern.info.total_trades
         /\ pattern.info.total_trades > 10
         /\ amount_in >= min_transaction_amount

\* should_copy_trade is asked about a transaction of a tracked wallet
ShouldCopyTrade(w) ==
    /\ tracked_wallets[w] # Absent
    /\ \E amount_in \in {min_transaction_amount - 1, min_transaction_amount} :
         last_query' = [call |-> "should_copy_trade", wallet |-> w, amount_in |-> amount_in,
                        copy |-> should_copy_trade(tracked_wallets[w], amount_in)]
    /\ UNCHANGED <<tracked_wallets, copyVars, dex_calls, engineVars,
                   ledgerVars, haltVars, sent, retryVars, nodeVars, lateVars>>

\* WalletTracker::is_profitable_trade (284-287): true
is_profitable_trade(tx) == TRUE

\* WalletTracker::analyze_wallet (266-282): an error for a wallet with no
\* entry; else success_rate = successful_trades / trades.len() (kept as the
\* two numbers), successful_trades the trades is_profitable_trade accepts
analyze_wallet(w) ==
    IF tracked_wallets[w] = Absent
    THEN [call |-> "analyze_wallet", wallet |-> w, ok |-> FALSE]
    ELSE LET trades == tracked_wallets[w].transaction_history
             successful_trades ==
                 Cardinality({i \in 1..Len(trades) : is_profitable_trade(trades[i])})
         IN  [call |-> "analyze_wallet", wallet |-> w, ok |-> TRUE,
              success_rate |-> [num |-> successful_trades, den |-> Len(trades)],
              total_volume |-> tracked_wallets[w].total_volume_24h,
              trade_count |-> Len(trades)]

AnalyzeWallet(w) ==
    /\ last_query' = analyze_wallet(w)
    /\ UNCHANGED <<tracked_wallets, copyVars, dex_calls, engineVars,
                   ledgerVars, haltVars, sent, retryVars, nodeVars, lateVars>>

NextRegistry ==
    \E w \in Wallets :
        \/ track_wallet_callback(w)
        \/ RecordTrade(w)
        \/ ShouldCopyTrade(w)
        \/ AnalyzeWallet(w)

SpecRegistry == Init /\ [][NextRegistry]_vars

\* the trades recorded for wallet w, and those of them that succeeded
Total(w) == Len(tracked_wallets[w].transaction_history)
Successful(w) ==
    Cardinality({i \in 1..Total(w) : tracked_wallets[w].transaction_history[i].success})

\* C14: a leader is eligible exactly when it has at least 10 trades and a
\* success rate of at least 0.7 (for a transaction of a sufficient amount).
C14_EligibleAtThresholds ==
    (last_query.call = "should_copy_trade"
        /\ last_query.amount_in >= min_transaction_amount) =>
        (last_query.copy <=>
            (/\ Total(last_query.wallet) >= 10
             /\ 10 * Successful(last_query.wallet) >= 7 * Total(last_query.wallet)))

\* C15: the successful trades of a leader are at most its trades, and the
\* success rate reported for a leader with trades is successful / total.
C15_SuccessRateIsSuccessfulOverTotal ==
    (last_query.call = "analyze_wallet" /\ last_query.ok) =>
        /\ Successful(last_query.wallet) <= Total(last_query.wallet)
        /\ last_query.success_rate.den > 0
        /\ last_query.success_rate.num * Total(last_query.wallet)
               = Successful(last_query.wallet) * last_query.success_rate.den

\* C16: a swap of a leader that is not copied is still recorded in the
\* leader's state: when the callback of track_wallet has run on a
\* transaction of a wallet, the wallet has an entry with at least one trade.
C16_SightingRecorded ==
    last_query.call = "track_wallet" =>
        /\ tracked_wallets[last_query.wallet] # Absent
        /\ Total(last_query.wallet) >= 1

(***************************************************************************)
(* RaydiumDex::execute_swap (src/raydium.rs 83-114) with its inputs: the   *)
(* pool it reads, the amounts it is given and how the call ends.           *)
(***************************************************************************)

\* TradingConfig::default: min_liquidity: 1000.0
min_liquidity == 1000

\* the pools get_pool_info may return: liquidity below, at and above the
\* floor; reserves whose product fits the word, and reserves whose product
\* does not
Pools ==
    {[liquidity |-> l, base_amount |-> r[1], quote_amount |-> r[2]] :
        l \in {500, 1000, 2000}, r \in {<<1000, 1000>>, <<1000, 2000>>, <<4096, 4096>>}}

\* what the node answers: the pool fetch fails, the blockhash fetch fails,
\* the send fails or succeeds
NodeAnswers == {"PoolError", "BlockhashError", "SwapFailed", "Ok"}

\* execute_swap(pool_id, amount_in, min_amount_out): get_pool_info()?, the
\* price-impact test of lines 92-95, get_latest_blockhash()?,
\* send_and_confirm_transaction. Nothing else is tested. An arithmetic
\* overflow in calculate_price_impact panics in a build with overflow checks
\* and wraps around in a build without.
execute_swap ==
    /\ Len(dex_calls) < MaxDexCalls
    /\ \E pool \in Pools, amount_in \in {0, 1, 100}, min_amount_out \in {0, 5000},
          max_slippage_pct \in {2}, node \in NodeAnswers, overflow_checks \in BOOLEAN :
         LET outcome ==
                 IF node = "PoolError" THEN "PoolError"
                 ELSE IF /\ overflow_checks
                         /\ Overflows(pool.base_amount, pool.quote_amount, amount_in)
                      THEN "Panic"
                 ELSE IF PriceImpactTooHigh(pool.base_amount, pool.quote_amount,
                                            amount_in, max_slippage_pct)
                      THEN "PriceImpactTooHigh"
                      ELSE node
         IN  dex_calls' = Append(dex_calls,
                 [pool |-> pool, amount_in |-> amount_in,
                  min_amount_out |-> min_amount_out,
                  max_slippage_pct |-> max_slippage_pct, outcome |-> outcome])
    /\ UNCHANGED <<copyVars, registryVars, engineVars, ledgerVars, haltVars, sent, retryVars, nodeVars, lateVars>>

NextDex == execute_swap

SpecDex == Init /\ [][NextDex]_vars

DexCalls == {dex_calls[i] : i \in 1..Len(dex_calls)}

\* the call handed a transaction to the node
DexSent(call) == call.outcome \in {"SwapFailed", "Ok"}

\* the output the constant-product formula gives for amount_in:
\* reserve_out - (reserve_in * reserve_out) / (reserve_in + amount_in)
expected_out(pool, amount_in) ==
    pool.quote_amount
        - (pool.base_amount * pool.quote_amount) \div (pool.base_amount + amount_in)

\* C17: no transaction is sent for a pool whose liquidity is below
\* min_liquidity, whatever the other inputs are.
C17_ThinPoolNotSent ==
    \A call \in DexCalls :
        call.pool.liquidity < min_liquidity => ~DexSent(call)

\* C18: every swap sent has an input amount above 0 and a minimum output of
\* at most the output expected from the pool.
C18_AmountPositiveMinOutBounded ==
    \A call \in DexCalls :
        DexSent(call) =>
            /\ call.amount_in > 0
            /\ call.min_amount_out <= expected_out(call.pool, call.amount_in)

\* the price impact of the constant-product formula is above pct percent:
\* price_before = quote / base, price_after = (base * quote / new_base) / new_base
\* with new_base = base + amount_in, so that the impact is
\* 1 - base^2 / new_base^2
ConstantProductImpactAbove(pool, amount_in, pct) ==
    LET new_base == pool.base_amount + amount_in
    IN  (new_base * new_base - pool.base_amount * pool.base_amount) * 100
            > pct * new_base * new_base

\* C28: a swap is rejected for its price impact exactly when the impact the
\* constant-product formula gives for the pool's reserves is above
\* max_slippage, and a swap rejected so is not sent.
C28_RejectedIffImpactAboveMaxSlippage ==
    \A call \in DexCalls :
        call.outcome # "PoolError" =>
            /\ ConstantProductImpactAbove(call.pool, call.amount_in, call.max_slippage_pct)
                   => ~DexSent(call)
            /\ call.outcome = "PriceImpactTooHigh"
                   => ConstantProductImpactAbove(call.pool, call.amount_in,
                                                 call.max_slippage_pct)

\* C40: in calculate_price_impact, with a base reserve that is not 0,
\* base_amount + amount_in and base_amount * quote_amount fit the machine
\* word, and the reserves after the swap have a product of at most
\* base_amount * quote_amount.
C40_NoOverflowProductNeverGrows ==
    \A call \in DexCalls :
        (call.outcome # "PoolError" /\ call.pool.base_amount # 0) =>
            LET base_amount == call.pool.base_amount
                quote_amount == call.pool.quote_amount
                new_base == (base_amount + call.amount_in) % Word
                new_quote == ((base_amount * quote_amount) % Word) \div new_base
            IN  /\ base_amount + call.amount_in < Word
                /\ base_amount * quote_amount < Word
                /\ new_base * new_quote <= base_amount * quote_amount

(***************************************************************************)
(* calculate_optimal_priority_fee (src/engine.rs 306-324)                  *)
(***************************************************************************)

\* the prioritization fees a sample of the window may carry: none, one below
\* and one above the configured priority fee
FeeSamples == {0, 500000, 2000000}

\* the windows get_recent_prioritization_fees may return
RecentFees == UNION {[1..n -> FeeSamples] : n \in 0..MaxSamples}

\* fees.sort_unstable(): ascending order
RECURSIVE sort_unstable(_)
sort_unstable(fees) ==
    IF fees = <<>> THEN <<>>
    ELSE LET m == CHOOSE i \in 1..Len(fees) : \A j \in 1..Len(fees) : fees[i] <= fees[j]
         IN  <<fees[m]>> \o sort_unstable(SubSeq(fees, 1, m - 1) \o SubSeq(fees, m + 1, Len(fees)))

\* lines 311-323: the configured fee for an empty window; otherwise the
\* sample at index (len * 0.75) as usize of the sorted samples (0-based;
\* .get(index) is None past the end)
optimal_priority_fee(recent_fees) ==
    IF recent_fees = <<>> THEN priority_fee
    ELSE LET fees == sort_unstable(recent_fees)
             index == (Len(fees) * 3) \div 4
         IN  IF index < Len(fees) THEN fees[index + 1] ELSE priority_fee

\* one call: get_recent_prioritization_fees(..).unwrap_or_default() turns an
\* error of the node into the empty window
calculate_optimal_priority_fee ==
    /\ \E node_ok \in BOOLEAN, window \in RecentFees :
         LET recent_fees == IF node_ok THEN window ELSE <<>>
         IN  fee_quote' = [recent_fees |-> recent_fees,
                           fee |-> optimal_priority_fee(recent_fees)]
    /\ UNCHANGED <<engineVars, ledgerVars, haltVars, sent, stageVars, retryVars,
                   current_index, last_call, lateVars>>

NextOracle == calculate_optimal_priority_fee

SpecOracle == Init /\ [][NextOracle]_vars

\* C29: the fee quoted is never below the configured priority fee, whatever
\* the window of samples holds.
C29_QuoteNeverBelowFloor ==
    fee_quote # NoQuote => fee_quote.fee >= priority_fee

(***************************************************************************)
(* Calls of the node: the client of the engine (src/engine.rs 83-86) and   *)
(* RPCConfig::get_next_endpoint (src/engine.rs 47-58)                      *)
(***************************************************************************)

\* the endpoint the client of the engine is built with
HELIUS_RPC_URL == "helius"

\* RPCConfig.endpoints
endpoints == <<HELIUS_RPC_URL, "rpc1", "rpc2">>

\* how a call of the node ends
FailoverOutcomes == {"NetworkError", "RateLimited", "ServerError", "Timeout"}
CallOutcomes == {"Ok", "RequestError"} \cup FailoverOutcomes

\* the values of current_index, an AtomicUsize: the 64-bit word scaled to 4
\* bits (2^4 and 2^64 both leave the remainder 1 when divided by the number
\* of endpoints)
UsizeWord == 16

\* the place of an endpoint in RPCConfig.endpoints
Position(endpoint) == CHOOSE i \in 1..Len(endpoints) : endpoints[i] = endpoint

\* lines 54-57: index = current_index.fetch_add(1) % endpoints.len();
\* endpoints[index].clone(). fetch_add is one atomic step of the caller and
\* wraps around at the end of the word.
get_next_endpoint ==
    /\ current_index' = (current_index + 1) % UsizeWord
    /\ last_call' = [op |-> "get_next_endpoint",
                     endpoint |-> endpoints[(current_index % Len(endpoints)) + 1]]
    /\ UNCHANGED <<engineVars, ledgerVars, haltVars, sent, stageVars, retryVars, fee_quote, lateVars>>

\* a call of self.rpc_client (get_latest_blockhash, send_transaction_with_config,
\* get_transaction ..): the client was built once, in TradingEngine::new, for
\* HELIUS_RPC_URL, and no code reads RPCConfig when a call returns
rpc_client_call ==
    /\ \E outcome \in CallOutcomes :
         last_call' = [op |-> "rpc_client", endpoint |-> HELIUS_RPC_URL, outcome |-> outcome]
    /\ UNCHANGED <<engineVars, ledgerVars, haltVars, sent, stageVars, retryVars, fee_quote,
                   current_index, lateVars>>

NextGateway == get_next_endpoint \/ rpc_client_call

SpecGateway == Init /\ [][NextGateway]_vars

\* C30: a call of the node that fails with a network error, a rate limit, a
\* server error or a timeout advances the endpoint index by one, and a call
\* that succeeds leaves it unchanged.
C30_IndexAdvancesOnFailureOnly ==
    [][(last_call' # last_call /\ last_call'.op = "rpc_client") =>
          /\ last_call'.outcome \in FailoverOutcomes => current_index' = current_index + 1
          /\ last_call'.outcome = "Ok" => current_index' = current_index]_vars

\* C37: get_next_endpoint returns an endpoint of the list, and two calls in
\* a row return neighbours in list order (the first endpoint after the
\* last), whatever the value of the counter.
C37_RotationInListOrder ==
    [][(last_call.op = "get_next_endpoint" /\ last_call'.op = "get_next_endpoint"
        /\ current_index' # current_index) =>
          /\ \E i \in 1..Len(endpoints) : endpoints[i] = last_call'.endpoint
          /\ Position(last_call'.endpoint) = (Position(last_call.endpoint) % Len(endpoints)) + 1]_vars

(***************************************************************************)
(* The length of a wallet's history: WalletState::add_transaction          *)
(* (src/wallet.rs 46-50) pushes, and nothing removes                       *)
(***************************************************************************)

\* handle_trade is called with one more trade of wallet w
AppendTrade(w) ==
    /\ RecordedTrades(w) < MaxAppended
    /\ tracked_wallets' =
           handle_trade(w, [success |-> TRUE, amount_in |-> min_transaction_amount,
                            timestamp |-> now])
    /\ last_query' = NoQuery
    /\ UNCHANGED <<copyVars, dex_calls, engineVars, ledgerVars, haltVars, sent, retryVars,
                   nodeVars, lateVars>>

NextBuffer == \E w \in Wallets : AppendTrade(w)

SpecBuffer == Init /\ [][NextBuffer]_vars

\* C33: a wallet's history holds at most 256 trades and the trade history
\* of the engine at most 10000 records, however many were appended.
C33_LogsBounded ==
    /\ \A w \in Wallets : RecordedTrades(w) <= 256
    /\ Len(trade_history) <= 10000

(***************************************************************************)
(* The 24-hour volume of a wallet: the two paths that record a trade,      *)
(* handle_trade (src/wallet.rs 231-239) and process_trade (241-251), and   *)
(* the two computations, update_volume (52-59) and update_metrics (253-264)*)
(***************************************************************************)

\* WalletTracker::update_metrics (253-264): the amounts of the trades whose
\* timestamp.elapsed() <= 24 h
update_metrics(history) ==
    SumAmountIn(SelectSeq(history, LAMBDA tx : now - tx.timestamp <= DayMs))

\* WalletTracker::process_trade (241-251): as handle_trade, then
\* update_metrics(wallet) writes total_volume_24h again
process_trade(w, trade) ==
    LET added == handle_trade(w, trade)
    IN  [added EXCEPT ![w].total_volume_24h = update_metrics(added[w].transaction_history)]

\* the trades recorded here: two amounts, made now
VolumeTrades ==
    {[success |-> TRUE, amount_in |-> a, timestamp |-> now] :
        a \in {min_transaction_amount, 2 * min_transaction_amount}}

\* the callback of track_wallet records a trade (handle_trade)
HandleTrade(w) ==
    /\ RecordedTrades(w) < MaxVolumeTrades
    /\ \E trade \in VolumeTrades : tracked_wallets' = handle_trade(w, trade)
    /\ last_query' = NoQuery
    /\ UNCHANGED <<copyVars, dex_calls, engineVars, ledgerVars, haltVars, sent, retryVars,
                   nodeVars, lateVars>>

\* the callback of monitor_wallet records a trade (process_trade)
ProcessTrade(w) ==
    /\ RecordedTrades(w) < MaxVolumeTrades
    /\ \E trade \in VolumeTrades : tracked_wallets' = process_trade(w, trade)
    /\ last_query' = NoQuery
    /\ UNCHANGED <<copyVars, dex_calls, engineVars, ledgerVars, haltVars, sent, retryVars,
                   nodeVars, lateVars>>

\* 24 hours pass
DayPasses ==
    /\ now < MaxDays * DayMs
    /\ now' = now + DayMs
    /\ UNCHANGED <<decoded, spawned, registryVars, dex_calls, engineVars, ledgerVars, haltVars,
                   sent, retryVars, nodeVars, lateVars>>

NextVolume == DayPasses \/ \E w \in Wallets : HandleTrade(w) \/ ProcessTrade(w)

SpecVolume == Init /\ [][NextVolume]_vars

\* C34: when a trade has just been recorded for a wallet, its
\* total_volume_24h is the sum of the amounts of the trades of its history
\* made within the last 24 hours, as update_volume computes it and as
\* update_metrics computes it.
C34_VolumeIsSlidingWindow ==
    \A w \in Wallets :
        (tracked_wallets[w] # Absent /\ tracked_wallets[w].last_update = now) =>
            /\ tracked_wallets[w].total_volume_24h
                   = update_volume(tracked_wallets[w].transaction_history)
            /\ tracked_wallets[w].total_volume_24h
                   = update_metrics(tracked_wallets[w].transaction_history)

(***************************************************************************)
(* The pool cache of RaydiumDex (src/raydium.rs 125-245): update_pool and  *)
(* update_pool_state write an entry, validate_trade_conditions reads it    *)
(***************************************************************************)

\* RaydiumDex::new: update_interval: Duration::from_secs(1), in milliseconds
update_interval == 1000

\* the cache is refreshed: fetch_pool_info(pool_id).await? (an error of the
\* node leaves the cache as it is), then the entry gets the fetched info and
\* last_update = Instant::now()
Refreshed ==
    \E fetch_ok \in BOOLEAN, info \in Pools :
        pools' = IF fetch_ok THEN [info |-> info, last_update |-> now] ELSE pools

\* update_pool (125-145)
update_pool ==
    /\ Refreshed
    /\ UNCHANGED <<engineVars, ledgerVars, haltVars, sent, stageVars, retryVars, nodeVars,
                   startVars, countVars, last_validation, signalVars, last_bundle>>

\* update_pool_state (171-182), the refresh of one round of monitor_pool
update_pool_state ==
    /\ Refreshed
    /\ last_validation' = NoValidation
    /\ UNCHANGED <<engineVars, ledgerVars, haltVars, sent, stageVars, retryVars, nodeVars,
                   startVars, countVars, signalVars, last_bundle>>

\* the signals validate_trade_conditions is given: made now or one interval
\* ago, confidence 0.6 or 0.7 (in tenths)
Signals == {[timestamp |-> t, confidence |-> c] :
               t \in {now, now - update_interval} \cap Nat, c \in {6, 7}}

\* validate_trade_conditions (221-245): the cached entry of the pool (an
\* error when there is none), liquidity < min_liquidity => false,
\* signal.timestamp.elapsed() > 30 s => false, confidence < 0.7 => false,
\* else true. last_update of the entry is not read.
validate_trade_conditions ==
    /\ \E signal \in Signals :
         last_validation' =
            IF pools = NoPool THEN [result |-> "PoolNotFound"]
            ELSE [result |-> IF pools.info.liquidity < min_liquidity THEN "false"
                             ELSE IF now - signal.timestamp > 30000 THEN "false"
                             ELSE IF signal.confidence < 7 THEN "false"
                             ELSE "true",
                  snapshot_age |-> now - pools.last_update]
    /\ UNCHANGED <<engineVars, ledgerVars, haltVars, sent, stageVars, retryVars, nodeVars,
                   startVars, countVars, pools, signalVars, last_bundle>>

\* one refresh interval passes
IntervalPasses ==
    /\ now < MaxIntervals * update_interval
    /\ now' = now + update_interval
    /\ UNCHANGED <<decoded, spawned, registryVars, dex_calls, engineVars, ledgerVars, haltVars,
                   sent, retryVars, nodeVars, lateVars>>

NextPool == update_pool \/ update_pool_state \/ validate_trade_conditions \/ IntervalPasses

SpecPool == Init /\ [][NextPool]_vars

volume_threshold == 200
price_threshold == 5

\* the metrics fetch_token_metrics answers with (the values of its
\* placeholder body, 0.0 and 0.0, among them): volume_24h and price
MetricsValues == [volume_24h : {0, 1, 3, 4}, price : {0, 100, 105, 106}]

\* the f64 division num / den of two finite values: 0/0 is NaN, x/0 is an
\* infinity of the sign of x, any other quotient is kept as a fraction
Divide(num, den) ==
    IF den = 0
    THEN IF num = 0 THEN [kind |-> "NaN"]
         ELSE IF num > 0 THEN [kind |-> "inf"] ELSE [kind |-> "-inf"]
    ELSE [kind |-> "finite", num |-> num, den |-> den]

\* the f64 comparison q > threshold (in hundredths): false of NaN
GreaterThan(q, threshold) ==
    CASE q.kind = "NaN"  -> FALSE
      [] q.kind = "inf"  -> TRUE
      [] q.kind = "-inf" -> FALSE
      [] OTHER -> IF q.den > 0 THEN q.num * 100 > threshold * q.den
                               ELSE q.num * 100 < threshold * q.den

\* the test with either change above its threshold
is_buy_signal_either(previous_metrics, current_metrics) ==
    LET volume_change == Divide(current_metrics.volume_24h - previous_metrics.volume_24h,
                                previous_metrics.volume_24h)
        price_change == Divide(current_metrics.price - previous_metrics.price,
                               previous_metrics.price)
    IN  GreaterThan(volume_change, volume_threshold) \/ GreaterThan(price_change, price_threshold)

\* lines 100-108: volume_change and price_change against the stored metrics,
\* volume_change > volume_threshold && price_change > price_threshold
is_buy_signal(previous_metrics, current_metrics) ==
    LET volume_change == Divide(current_metrics.volume_24h - previous_metrics.volume_24h,
                                previous_metrics.volume_24h)
        price_change == Divide(current_metrics.price - previous_metrics.price,
                               previous_metrics.price)
    IN  GreaterThan(volume_change, volume_threshold) /\ GreaterThan(price_change, price_threshold)

\* check_token (95-115): the metrics are fetched; with stored metrics of the
\* token and both changes above their thresholds it returns BuySignal before
\* the insert; in every other case the fetched metrics are stored and None
\* is returned
check_token(token) ==
    /\ \E current_metrics \in MetricsValues :
         IF /\ tracked_tokens[token] # NoMetrics
            /\ is_buy_signal(tracked_tokens[token], current_metrics)
         THEN /\ check_result' = [signal |-> "BuySignal", token |-> token,
                                  current |-> current_metrics]
              /\ tracked_tokens' = tracked_tokens
         ELSE /\ check_result' = [signal |-> "None", token |-> token,
                                  current |-> current_metrics]
              /\ tracked_tokens' = [tracked_tokens EXCEPT ![token] = current_metrics]
    /\ UNCHANGED <<engineVars, ledgerVars, haltVars, sent, stageVars, retryVars, nodeVars,
                   startVars, countVars, poolVars, last_bundle>>

NextSignal == \E token \in Tokens : check_token(token)

SpecSignal == Init /\ [][NextSignal]_vars

\* a value rose from prev to cur by more than t hundredths of prev
RoseByMoreThan(cur, prev, t) == (cur - prev) * 100 > t * prev

NodeChanges ==
    /\ \E n \in NodeStates : n # node_state /\ node_state' = n
    /\ UNCHANGED <<engineVars, ledgerVars, haltVars, sent, stageVars, retryVars, nodeVars,
                   running, last_check, countVars, poolVars, signalVars, last_bundle>>

\* test_rpc_connection (104-110): get_latest_blockhash().map_err(..)?
test_rpc_connection == node_state.blockhash_ok

\* verify_wallet_balance (112-118): get_balance(..).await?, and the balance
\* is printed; it is compared with nothing
verify_wallet_balance == node_state.balance_ok

\* start_bot (91-102): test_rpc_connection().await?;
\* verify_wallet_balance().await?; self.running = true
start_bot ==
    /\ ~running
    /\ LET ok == test_rpc_connection /\ verify_wallet_balance
       IN  /\ running' = ok
           /\ last_check' = [op |-> "start_bot", ok |-> ok]
    /\ UNCHANGED <<engineVars, ledgerVars, haltVars, sent, stageVars, retryVars, nodeVars,
                   node_state, countVars, poolVars, signalVars, last_bundle>>

\* verify_setup (738-754): get_latest_blockhash()?, get_balance(..)?,
\* balance < 1_000_000 is an error; compute_units is the 1_400_000 of
\* TradingEngine::new. Nothing is marked.
verify_setup ==
    /\ last_check' =
           [op |-> "verify_setup",
            ok |-> /\ node_state.blockhash_ok
                   /\ node_state.balance_ok
                   /\ ~(node_state.balance < min_required_balance)]
    /\ UNCHANGED <<engineVars, ledgerVars, haltVars, sent, stageVars, retryVars, nodeVars,
                   node_state, running, countVars, poolVars, signalVars, last_bundle>>

\* pre_launch_check (762-784): as verify_setup, and get_slot()? with slot == 0
\* an error. Nothing is marked.
pre_launch_check ==
    /\ last_check' =
           [op |-> "pre_launch_check",
            ok |-> /\ node_state.blockhash_ok
                   /\ node_state.balance_ok
                   /\ ~(node_state.balance < min_required_balance)
                   /\ node_state.slot # 0]
    /\ UNCHANGED <<engineVars, ledgerVars, haltVars, sent, stageVars, retryVars, nodeVars,
                   node_state, running, countVars, poolVars, signalVars, last_bundle>>

NextStartup == NodeChanges \/ start_bot \/ verify_setup \/ pre_launch_check

SpecStartup == Init /\ [][NextStartup]_vars

\* C31: the bot becomes running only when the blockhash probe and the
\* balance probe succeeded and the balance is at least the floor; when a
\* probe fails or the balance is below the floor, startup leaves it not
\* running.
C31_RunningOnlyAfterProbes ==
    [][(~running /\ running') =>
          /\ node_state.blockhash_ok
          /\ node_state.balance_ok
          /\ node_state.balance >= min_required_balance]_vars

====
